---- MODULE Spec2Model ----
(***************************************************************************)
(* MutexQueue<T, kMaxSize> (mutex_queue.h) and ThreadPool (thread_pool.h). *)
(*                                                                         *)
(* Every statement executed under mutex_ is one step of the thread that    *)
(* holds it.  A condition_variable is the set of threads blocked in its    *)
(* wait(); notify_all() empties the set, and a thread taken out of the set *)
(* has to re-acquire mutex_ before it evaluates its wait predicate again.  *)
(* An operation starts with the step that acquires mutex_ (nothing shared  *)
(* is read or written before that) and ends in pc = "done", where the      *)
(* caller sees the return value.                                           *)
(***************************************************************************)
EXTENDS Naturals, Sequences, FiniteSets

\* Model bounds.
kMaxSize == 2   \* template parameter kMaxSize of MutexQueue (128 in ThreadPool)
MaxItems == 3   \* number of emplace calls made in one behaviour

Clients == {"c1", "c2"}             \* threads using a MutexQueue directly
Workers == {"w1", "w2"}             \* ThreadPool::thread_pool_
Submitters == {"s1", "s2"}          \* threads calling ThreadPool::enqueue
Owner == "main"                     \* thread that destroys the ThreadPool
Threads == Clients \cup Workers \cup Submitters \cup {Owner}

NoThread == "none"
Items == 1..MaxItems
NoItem == 0     \* a default-constructed T
Nullptr == 0    \* T* value == nullptr
Ptr == 1        \* T* value != nullptr

VARIABLES
  queue_,               \* std::queue<T> queue_
  mutex_,               \* std::mutex mutex_: its owner, or NoThread
  alert_for_exit_,      \* std::atomic<bool> alert_for_exit_
  not_empty_notifier_,  \* threads blocked in not_empty_notifier_.wait
  not_full_notifier_,   \* threads blocked in not_full_notifier_.wait
  pc,                   \* position of each thread
  op,                   \* operation each thread is in
  arg,                  \* emplace: the item; pop: the pointer `value`
  ret,                  \* return value of the operation
  out,                  \* *value written by a pop; the size_t an observer returns
  next_item,            \* next fresh item (items are distinct)
  \* history of the run, read only by the properties
  pushed,               \* items in the order they were emplaced
  overwrites,           \* whether emplace_overwrite_oldest was ever called
  late_admit,           \* whether emplace_wait_if_full enqueued with the flag set
  popped,               \* items in the order pops removed them
  cs_entry,             \* queue_ when the current owner of mutex_ locked it
  after_alert,          \* threads whose current call started with the flag set
  alert_woken,          \* threads that alert_for_exit's notify_all released
  waited,               \* threads that have blocked during their current call
  \* ThreadPool
  held,                 \* worker: the task moved into its local `task`
  runs,                 \* task -> number of times its body ran
  slot,                 \* task -> state of the future's shared state
  value,                \* task -> the value stored in the shared state
  handle,               \* tasks whose future enqueue has returned
  joined,               \* ~ThreadPool: threads of thread_pool_ already joined
  \* history of the pool's run, read only by the properties
  late,                 \* tasks enqueued after a task body had raised
  drained               \* tasks run after ~ThreadPool had set the flag

qvars == <<queue_, mutex_, alert_for_exit_, not_empty_notifier_, not_full_notifier_>>
tvars == <<pc, op, arg, ret, out, next_item>>
hvars == <<pushed, overwrites, late_admit, popped, cs_entry, after_alert, alert_woken, waited>>
pvars == <<held, runs, slot, value, handle, joined, late, drained>>
vars == <<qvars, tvars, hvars, pvars>>

Init ==
  /\ queue_ = <<>>
  /\ mutex_ = NoThread
  /\ alert_for_exit_ = FALSE
  /\ not_empty_notifier_ = {}
  /\ not_full_notifier_ = {}
  /\ pc = [t \in Threads |-> "idle"]
  /\ op = [t \in Threads |-> "none"]
  /\ arg = [t \in Threads |-> NoItem]
  /\ ret = [t \in Threads |-> FALSE]
  /\ out = [t \in Threads |-> NoItem]
  /\ next_item = 1
  /\ pushed = <<>>
  /\ overwrites = FALSE
  /\ late_admit = FALSE
  /\ cs_entry = <<>>
  /\ after_alert = {}
  /\ alert_woken = {}
  /\ waited = {}
  /\ popped = <<>>
  /\ held = [w \in Workers |-> NoItem]
  /\ runs = [i \in Items |-> 0]
  /\ slot = [i \in Items |-> "none"]
  /\ value = [i \in Items |-> NoItem]
  /\ handle = {}
  /\ joined = 0
  /\ late = {}
  /\ drained = {}

----------------------------------------------------------------------------
\* MutexQueue: private helpers and the std::queue / std::mutex primitives.

\* is_full() with > in place of >=
is_full_gt == Len(queue_) > kMaxSize

is_full == Len(queue_) >= kMaxSize
is_empty == queue_ = <<>>

\* an emplace at the head instead of the tail
QueueEmplaceFront(q, x) == <<x>> \o q

\* queue_.emplace(args...)
QueueEmplace(q, x) == Append(q, x)
\* a pop that removes nothing
QueuePopNone(q) == q

\* a pop that removes the newest element
QueuePopBack(q) == SubSeq(q, 1, Len(q) - 1)

\* queue_.pop()
QueuePop(q) == Tail(q)
\* queue_.front()
QueueFront(q) == Head(q)

\* a wait predicate that asks for two free places
NotFullPredEager == Len(queue_) + 1 < kMaxSize \/ alert_for_exit_

\* a wait predicate that does not read the cancellation flag
NotFullPredNoAlert == ~is_full

\* wait predicate of not_full_notifier_.wait in emplace_wait_if_full
NotFullPred == ~is_full \/ alert_for_exit_
\* a wait predicate that does not read the cancellation flag
NotEmptyPredNoAlert == ~is_empty

\* wait predicate of not_empty_notifier_.wait in pop_wait_if_empty
NotEmptyPred == ~is_empty \/ alert_for_exit_

Goto(t, l) == pc' = [pc EXCEPT ![t] = l]

\* a lock that is granted while another thread holds mutex_
BeginNoExclusion(t, o, a) ==
  /\ pc[t] = "idle"
  /\ mutex_' = t
  /\ cs_entry' = queue_
  /\ op' = [op EXCEPT ![t] = o]
  /\ arg' = [arg EXCEPT ![t] = a]
  /\ after_alert' = IF alert_for_exit_ THEN after_alert \cup {t} ELSE after_alert \ {t}
  /\ alert_woken' = alert_woken \ {t}
  /\ waited' = waited \ {t}

\* std::unique_lock<std::mutex> lock(mutex_) at the start of operation o
Begin(t, o, a) ==
  /\ pc[t] = "idle"
  /\ mutex_ = NoThread
  /\ mutex_' = t
  /\ cs_entry' = queue_
  /\ op' = [op EXCEPT ![t] = o]
  /\ arg' = [arg EXCEPT ![t] = a]
  /\ after_alert' = IF alert_for_exit_ THEN after_alert \cup {t} ELSE after_alert \ {t}
  /\ alert_woken' = alert_woken \ {t}
  /\ waited' = waited \ {t}

\* the unique_lock's destructor at a return statement
End(t, r) ==
  /\ mutex_' = NoThread
  /\ cs_entry' = <<>>
  /\ ret' = [ret EXCEPT ![t] = r]
  /\ Goto(t, "done")

\* condition_variable::wait(lock): release mutex_ and block, atomically
Wait(t, l) ==
  /\ mutex_' = NoThread
  /\ waited' = waited \cup {t}
  /\ cs_entry' = <<>>
  /\ Goto(t, l)

\* a thread that was notified re-acquires mutex_ inside wait()
Relock(t, l) ==
  /\ mutex_ = NoThread
  /\ mutex_' = t
  /\ cs_entry' = queue_
  /\ Goto(t, l)

----------------------------------------------------------------------------
\* bool emplace_wait_if_full(Args&&... args)

EmplaceWaitIfFull(t, x) ==
  /\ Begin(t, "emplace_wait_if_full", x)
  /\ Goto(t, "ewf_pred")
  /\ next_item' = next_item + 1
  /\ UNCHANGED <<queue_, alert_for_exit_, not_empty_notifier_, not_full_notifier_>>
  /\ UNCHANGED <<ret, out, pushed, overwrites, late_admit, popped>>

EwfPred(t) ==
  /\ pc[t] = "ewf_pred"
  /\ IF NotFullPred
       THEN /\ Goto(t, "ewf_if")
            /\ UNCHANGED <<mutex_, cs_entry, waited, not_full_notifier_>>
       ELSE /\ Wait(t, "ewf_blocked")
            /\ not_full_notifier_' = not_full_notifier_ \cup {t}
  /\ UNCHANGED <<queue_, alert_for_exit_, not_empty_notifier_>>
  /\ UNCHANGED <<op, arg, ret, out, next_item>>
  /\ UNCHANGED <<pushed, overwrites, late_admit, popped, after_alert, alert_woken>>
  /\ UNCHANGED pvars

EwfWake(t) ==
  /\ pc[t] = "ewf_blocked"
  /\ t \notin not_full_notifier_
  /\ Relock(t, "ewf_pred")
  /\ UNCHANGED <<queue_, alert_for_exit_, not_empty_notifier_, not_full_notifier_>>
  /\ UNCHANGED <<op, arg, ret, out, next_item>>
  /\ UNCHANGED <<pushed, overwrites, late_admit, popped, after_alert, alert_woken, waited>>
  /\ UNCHANGED pvars

EwfIf(t) ==
  /\ pc[t] = "ewf_if"
  /\ IF ~is_full
       THEN /\ queue_' = QueueEmplace(queue_, arg[t])
            /\ pushed' = Append(pushed, arg[t])
            /\ late_admit' = (late_admit \/ alert_for_exit_)
            /\ Goto(t, "ewf_notify")
            /\ UNCHANGED <<mutex_, cs_entry, ret>>
       ELSE /\ End(t, FALSE)
            /\ UNCHANGED <<queue_, pushed, late_admit>>
  /\ UNCHANGED <<alert_for_exit_, not_empty_notifier_, not_full_notifier_>>
  /\ UNCHANGED <<op, arg, out, next_item>>
  /\ UNCHANGED <<overwrites, popped, after_alert, alert_woken, waited>>
  /\ UNCHANGED pvars

\* emplace_wait_if_full without its notify_all
EwfNoNotify(t) ==
  /\ pc[t] = "ewf_notify"
  /\ UNCHANGED not_empty_notifier_
  /\ End(t, TRUE)
  /\ UNCHANGED <<queue_, alert_for_exit_, not_full_notifier_>>
  /\ UNCHANGED <<op, arg, out, next_item>>
  /\ UNCHANGED <<pushed, overwrites, late_admit, popped, after_alert, alert_woken, waited>>
  /\ UNCHANGED pvars

EwfNotify(t) ==
  /\ pc[t] = "ewf_notify"
  /\ not_empty_notifier_' = {}
  /\ End(t, TRUE)
  /\ UNCHANGED <<queue_, alert_for_exit_, not_full_notifier_>>
  /\ UNCHANGED <<op, arg, out, next_item>>
  /\ UNCHANGED <<pushed, overwrites, late_admit, popped, after_alert, alert_woken, waited>>
  /\ UNCHANGED pvars

----------------------------------------------------------------------------
\* void emplace_overwrite_oldest(Args&&... args)

EmplaceOverwriteOldest(t, x) ==
  /\ Begin(t, "emplace_overwrite_oldest", x)
  /\ Goto(t, "eoo_while")
  /\ next_item' = next_item + 1
  /\ overwrites' = TRUE
  /\ UNCHANGED late_admit
  /\ UNCHANGED <<queue_, alert_for_exit_, not_empty_notifier_, not_full_notifier_>>
  /\ UNCHANGED <<ret, out, pushed, popped>>

EooWhile(t) ==
  /\ pc[t] = "eoo_while"
  /\ IF is_full
       THEN /\ queue_' = QueuePop(queue_)
            /\ UNCHANGED pc
       ELSE /\ Goto(t, "eoo_emplace")
            /\ UNCHANGED queue_
  /\ UNCHANGED <<mutex_, alert_for_exit_, not_empty_notifier_, not_full_notifier_>>
  /\ UNCHANGED <<op, arg, ret, out, next_item, hvars>>
  /\ UNCHANGED pvars

EooEmplace(t) ==
  /\ pc[t] = "eoo_emplace"
  /\ queue_' = QueueEmplace(queue_, arg[t])
  /\ pushed' = Append(pushed, arg[t])
  /\ Goto(t, "eoo_notify")
  /\ UNCHANGED <<mutex_, alert_for_exit_, not_empty_notifier_, not_full_notifier_>>
  /\ UNCHANGED <<op, arg, ret, out, next_item>>
  /\ UNCHANGED <<overwrites, late_admit, popped, cs_entry, after_alert, alert_woken, waited>>
  /\ UNCHANGED pvars

EooNotify(t) ==
  /\ pc[t] = "eoo_notify"
  /\ not_empty_notifier_' = {}
  /\ End(t, ret[t])
  /\ UNCHANGED <<queue_, alert_for_exit_, not_full_notifier_>>
  /\ UNCHANGED <<op, arg, out, next_item>>
  /\ UNCHANGED <<pushed, overwrites, late_admit, popped, after_alert, alert_woken, waited>>
  /\ UNCHANGED pvars

----------------------------------------------------------------------------
\* bool pop_if_not_empty(T* value)

PopIfNotEmpty(t, v) ==
  /\ Begin(t, "pop_if_not_empty", v)
  /\ Goto(t, "pine_if")
  /\ UNCHANGED <<queue_, alert_for_exit_, not_empty_notifier_, not_full_notifier_>>
  /\ UNCHANGED <<ret, out, next_item, pushed, overwrites, late_admit, popped>>

\* a pop_if_not_empty that returns false on a cancelled queue
PineIfAlert(t) ==
  /\ pc[t] = "pine_if"
  /\ IF is_empty \/ alert_for_exit_
       THEN End(t, FALSE)
       ELSE /\ Goto(t, "pine_front")
            /\ UNCHANGED <<mutex_, cs_entry, ret>>
  /\ UNCHANGED <<queue_, alert_for_exit_, not_empty_notifier_, not_full_notifier_>>
  /\ UNCHANGED <<op, arg, out, next_item>>
  /\ UNCHANGED <<pushed, overwrites, late_admit, popped, after_alert, alert_woken, waited>>
  /\ UNCHANGED pvars

PineIf(t) ==
  /\ pc[t] = "pine_if"
  /\ IF is_empty
       THEN End(t, FALSE)
       ELSE /\ Goto(t, "pine_front")
            /\ UNCHANGED <<mutex_, cs_entry, ret>>
  /\ UNCHANGED <<queue_, alert_for_exit_, not_empty_notifier_, not_full_notifier_>>
  /\ UNCHANGED <<op, arg, out, next_item>>
  /\ UNCHANGED <<pushed, overwrites, late_admit, popped, after_alert, alert_woken, waited>>
  /\ UNCHANGED pvars

PineFront(t) ==
  /\ pc[t] = "pine_front"
  /\ out' = IF arg[t] = Ptr THEN [out EXCEPT ![t] = QueueFront(queue_)] ELSE out
  /\ Goto(t, "pine_pop")
  /\ UNCHANGED <<qvars, op, arg, ret, next_item, hvars>>
  /\ UNCHANGED pvars

PinePop(t) ==
  /\ pc[t] = "pine_pop"
  /\ queue_' = QueuePop(queue_)
  /\ popped' = Append(popped, QueueFront(queue_))
  /\ Goto(t, "pine_notify")
  /\ UNCHANGED <<mutex_, alert_for_exit_, not_empty_notifier_, not_full_notifier_>>
  /\ UNCHANGED <<op, arg, ret, out, next_item>>
  /\ UNCHANGED <<pushed, overwrites, late_admit, cs_entry, after_alert, alert_woken, waited>>
  /\ UNCHANGED pvars

\* pop_if_not_empty without its notify_all
PineNoNotify(t) ==
  /\ pc[t] = "pine_notify"
  /\ UNCHANGED not_full_notifier_
  /\ End(t, TRUE)
  /\ UNCHANGED <<queue_, alert_for_exit_, not_empty_notifier_>>
  /\ UNCHANGED <<op, arg, out, next_item>>
  /\ UNCHANGED <<pushed, overwrites, late_admit, popped, after_alert, alert_woken, waited>>
  /\ UNCHANGED pvars

PineNotify(t) ==
  /\ pc[t] = "pine_notify"
  /\ not_full_notifier_' = {}
  /\ End(t, TRUE)
  /\ UNCHANGED <<queue_, alert_for_exit_, not_empty_notifier_>>
  /\ UNCHANGED <<op, arg, out, next_item>>
  /\ UNCHANGED <<pushed, overwrites, late_admit, popped, after_alert, alert_woken, waited>>
  /\ UNCHANGED pvars

----------------------------------------------------------------------------
\* bool pop_wait_if_empty(T* value)

PopWaitIfEmpty(t, v) ==
  /\ Begin(t, "pop_wait_if_empty", v)
  /\ Goto(t, "pwie_pred")
  /\ UNCHANGED <<queue_, alert_for_exit_, not_empty_notifier_, not_full_notifier_>>
  /\ UNCHANGED <<ret, out, next_item, pushed, overwrites, late_admit, popped>>

PwiePred(t) ==
  /\ pc[t] = "pwie_pred"
  /\ IF NotEmptyPred
       THEN /\ Goto(t, "pwie_if")
            /\ UNCHANGED <<mutex_, cs_entry, waited, not_empty_notifier_>>
       ELSE /\ Wait(t, "pwie_blocked")
            /\ not_empty_notifier_' = not_empty_notifier_ \cup {t}
  /\ UNCHANGED <<queue_, alert_for_exit_, not_full_notifier_>>
  /\ UNCHANGED <<op, arg, ret, out, next_item>>
  /\ UNCHANGED <<pushed, overwrites, late_admit, popped, after_alert, alert_woken>>
  /\ UNCHANGED pvars

PwieWake(t) ==
  /\ pc[t] = "pwie_blocked"
  /\ t \notin not_empty_notifier_
  /\ Relock(t, "pwie_pred")
  /\ UNCHANGED <<queue_, alert_for_exit_, not_empty_notifier_, not_full_notifier_>>
  /\ UNCHANGED <<op, arg, ret, out, next_item>>
  /\ UNCHANGED <<pushed, overwrites, late_admit, popped, after_alert, alert_woken, waited>>
  /\ UNCHANGED pvars

\* a pop_wait_if_empty that gives up on a cancelled queue without draining it
PwieIfAlertFirst(t) ==
  /\ pc[t] = "pwie_if"
  /\ IF ~is_empty /\ ~alert_for_exit_
       THEN /\ Goto(t, "pwie_front")
            /\ UNCHANGED <<mutex_, cs_entry, ret>>
       ELSE End(t, FALSE)
  /\ UNCHANGED <<queue_, alert_for_exit_, not_empty_notifier_, not_full_notifier_>>
  /\ UNCHANGED <<op, arg, out, next_item>>
  /\ UNCHANGED <<pushed, overwrites, late_admit, popped, after_alert, alert_woken, waited>>
  /\ UNCHANGED pvars

PwieIf(t) ==
  /\ pc[t] = "pwie_if"
  /\ IF ~is_empty
       THEN /\ Goto(t, "pwie_front")
            /\ UNCHANGED <<mutex_, cs_entry, ret>>
       ELSE End(t, FALSE)
  /\ UNCHANGED <<queue_, alert_for_exit_, not_empty_notifier_, not_full_notifier_>>
  /\ UNCHANGED <<op, arg, out, next_item>>
  /\ UNCHANGED <<pushed, overwrites, late_admit, popped, after_alert, alert_woken, waited>>
  /\ UNCHANGED pvars

PwieFront(t) ==
  /\ pc[t] = "pwie_front"
  /\ out' = IF arg[t] = Ptr THEN [out EXCEPT ![t] = QueueFront(queue_)] ELSE out
  /\ Goto(t, "pwie_pop")
  /\ UNCHANGED <<qvars, op, arg, ret, next_item, hvars>>
  /\ UNCHANGED pvars

PwiePop(t) ==
  /\ pc[t] = "pwie_pop"
  /\ queue_' = QueuePop(queue_)
  /\ popped' = Append(popped, QueueFront(queue_))
  /\ Goto(t, "pwie_notify")
  /\ UNCHANGED <<mutex_, alert_for_exit_, not_empty_notifier_, not_full_notifier_>>
  /\ UNCHANGED <<op, arg, ret, out, next_item>>
  /\ UNCHANGED <<pushed, overwrites, late_admit, cs_entry, after_alert, alert_woken, waited>>
  /\ UNCHANGED pvars

PwieNotify(t) ==
  /\ pc[t] = "pwie_notify"
  /\ not_full_notifier_' = {}
  /\ End(t, TRUE)
  /\ UNCHANGED <<queue_, alert_for_exit_, not_empty_notifier_>>
  /\ UNCHANGED <<op, arg, out, next_item>>
  /\ UNCHANGED <<pushed, overwrites, late_admit, popped, after_alert, alert_woken, waited>>
  /\ UNCHANGED pvars

----------------------------------------------------------------------------
\* void alert_for_exit()

AlertForExit(t) ==
  /\ Begin(t, "alert_for_exit", NoItem)
  /\ Goto(t, "afe_set")
  /\ UNCHANGED <<queue_, alert_for_exit_, not_empty_notifier_, not_full_notifier_>>
  /\ UNCHANGED <<ret, out, next_item, pushed, overwrites, late_admit, popped>>

\* an alert_for_exit that flips the flag instead of setting it
AfeToggle(t) ==
  /\ pc[t] = "afe_set"
  /\ alert_for_exit_' = ~alert_for_exit_
  /\ Goto(t, "afe_notify")
  /\ UNCHANGED <<queue_, mutex_, not_empty_notifier_, not_full_notifier_>>
  /\ UNCHANGED <<op, arg, ret, out, next_item>>
  /\ UNCHANGED <<pushed, overwrites, late_admit, popped, cs_entry, after_alert, alert_woken, waited>>
  /\ UNCHANGED pvars

AfeSet(t) ==
  /\ pc[t] = "afe_set"
  /\ alert_for_exit_' = TRUE
  /\ Goto(t, "afe_notify")
  /\ UNCHANGED <<queue_, mutex_, not_empty_notifier_, not_full_notifier_>>
  /\ UNCHANGED <<op, arg, ret, out, next_item>>
  /\ UNCHANGED <<pushed, overwrites, late_admit, popped, cs_entry, after_alert, alert_woken, waited>>
  /\ UNCHANGED pvars

\* alert_for_exit without its notify_all
AfeNoNotify(t) ==
  /\ pc[t] = "afe_notify"
  /\ UNCHANGED alert_woken
  /\ UNCHANGED not_empty_notifier_
  /\ End(t, ret[t])
  /\ UNCHANGED <<queue_, alert_for_exit_, not_full_notifier_>>
  /\ UNCHANGED <<op, arg, out, next_item>>
  /\ UNCHANGED <<pushed, overwrites, late_admit, popped, after_alert, waited>>
  /\ UNCHANGED pvars

AfeNotify(t) ==
  /\ pc[t] = "afe_notify"
  /\ alert_woken' = alert_woken \cup not_empty_notifier_
  /\ not_empty_notifier_' = {}
  /\ End(t, ret[t])
  /\ UNCHANGED <<queue_, alert_for_exit_, not_full_notifier_>>
  /\ UNCHANGED <<op, arg, out, next_item>>
  /\ UNCHANGED <<pushed, overwrites, late_admit, popped, after_alert, waited>>
  /\ UNCHANGED pvars

----------------------------------------------------------------------------
\* auto size() and auto empty()

\* queue_.size()
QueueSize(q) == Len(q)

Size(t) ==
  /\ Begin(t, "size", NoItem)
  /\ Goto(t, "size_ret")
  /\ UNCHANGED <<queue_, alert_for_exit_, not_empty_notifier_, not_full_notifier_>>
  /\ UNCHANGED <<ret, out, next_item, pushed, overwrites, late_admit, popped>>

\* return queue_.size();
SizeRet(t) ==
  /\ pc[t] = "size_ret"
  /\ out' = [out EXCEPT ![t] = QueueSize(queue_)]
  /\ End(t, ret[t])
  /\ UNCHANGED <<queue_, alert_for_exit_, not_empty_notifier_, not_full_notifier_>>
  /\ UNCHANGED <<op, arg, next_item>>
  /\ UNCHANGED <<pushed, overwrites, late_admit, popped, after_alert, alert_woken, waited>>
  /\ UNCHANGED pvars

Empty(t) ==
  /\ Begin(t, "empty", NoItem)
  /\ Goto(t, "empty_ret")
  /\ UNCHANGED <<queue_, alert_for_exit_, not_empty_notifier_, not_full_notifier_>>
  /\ UNCHANGED <<ret, out, next_item, pushed, overwrites, late_admit, popped>>

\* return queue_.size();  (empty() returns the element count as well)
EmptyRet(t) ==
  /\ pc[t] = "empty_ret"
  /\ out' = [out EXCEPT ![t] = QueueSize(queue_)]
  /\ End(t, ret[t])
  /\ UNCHANGED <<queue_, alert_for_exit_, not_empty_notifier_, not_full_notifier_>>
  /\ UNCHANGED <<op, arg, next_item>>
  /\ UNCHANGED <<pushed, overwrites, late_admit, popped, after_alert, alert_woken, waited>>
  /\ UNCHANGED pvars

----------------------------------------------------------------------------
\* condition_variable::wait may return without a notification

SpuriousWakeup(t) ==
  /\ \/ /\ t \in not_empty_notifier_
        /\ not_empty_notifier_' = not_empty_notifier_ \ {t}
        /\ UNCHANGED not_full_notifier_
     \/ /\ t \in not_full_notifier_
        /\ not_full_notifier_' = not_full_notifier_ \ {t}
        /\ UNCHANGED not_empty_notifier_
  /\ UNCHANGED <<queue_, mutex_, alert_for_exit_, tvars, hvars>>
  /\ UNCHANGED pvars

----------------------------------------------------------------------------
\* Threads that use a MutexQueue directly (the class comment's producer and
\* consumer): each calls any public operation, any number of times.

\* the call returns to the client
ClientReturn(t) ==
  /\ pc[t] = "done"
  /\ Goto(t, "idle")
  /\ op' = [op EXCEPT ![t] = "none"]
  /\ arg' = [arg EXCEPT ![t] = NoItem]
  /\ ret' = [ret EXCEPT ![t] = FALSE]
  /\ out' = [out EXCEPT ![t] = NoItem]
  /\ after_alert' = after_alert \ {t}
  /\ alert_woken' = alert_woken \ {t}
  /\ waited' = waited \ {t}
  /\ UNCHANGED <<qvars, next_item, pushed, overwrites, late_admit, popped, cs_entry>>
  /\ UNCHANGED pvars

ClientEmplaceWaitIfFull(t) ==
  /\ next_item <= MaxItems
  /\ EmplaceWaitIfFull(t, next_item)
  /\ UNCHANGED pvars

ClientEmplaceOverwriteOldest(t) ==
  /\ next_item <= MaxItems
  /\ EmplaceOverwriteOldest(t, next_item)
  /\ UNCHANGED pvars

ClientPopIfNotEmpty(t) ==
  /\ \E v \in {Nullptr, Ptr} : PopIfNotEmpty(t, v)
  /\ UNCHANGED pvars

ClientPopWaitIfEmpty(t) ==
  /\ \E v \in {Nullptr, Ptr} : PopWaitIfEmpty(t, v)
  /\ UNCHANGED pvars

ClientAlertForExit(t) ==
  /\ AlertForExit(t)
  /\ UNCHANGED pvars

Next ==
  \E t \in Clients :
    \/ ClientEmplaceWaitIfFull(t) \/ ClientEmplaceOverwriteOldest(t)
    \/ ClientPopIfNotEmpty(t) \/ ClientPopWaitIfEmpty(t)
    \/ ClientAlertForExit(t)
    \/ EwfPred(t) \/ EwfWake(t) \/ EwfIf(t) \/ EwfNotify(t)
    \/ EooWhile(t) \/ EooEmplace(t) \/ EooNotify(t)
    \/ PineIf(t) \/ PineFront(t) \/ PinePop(t) \/ PineNotify(t)
    \/ PwiePred(t) \/ PwieWake(t) \/ PwieIf(t)
    \/ PwieFront(t) \/ PwiePop(t) \/ PwieNotify(t)
    \/ AfeSet(t) \/ AfeNotify(t)
    \/ ClientReturn(t)
    \/ SpuriousWakeup(t)

Spec == Init /\ [][Next]_vars

\* Scheduling: a thread that can take its next statement eventually takes it,
\* and a thread contending for mutex_ eventually gets it.  Starting a call is
\* the client's choice, and a spurious wakeup is never owed.
ClientRun(t) ==
  \/ EwfPred(t) \/ EwfIf(t) \/ EwfNotify(t)
  \/ EooWhile(t) \/ EooEmplace(t) \/ EooNotify(t)
  \/ PineIf(t) \/ PineFront(t) \/ PinePop(t) \/ PineNotify(t)
  \/ PwiePred(t) \/ PwieIf(t) \/ PwieFront(t) \/ PwiePop(t) \/ PwieNotify(t)
  \/ AfeSet(t) \/ AfeNotify(t)
  \/ ClientReturn(t)

Reacquire(t) == EwfWake(t) \/ PwieWake(t)

FairSpec ==
  /\ Spec
  /\ \A t \in Clients : WF_vars(ClientRun(t)) /\ SF_vars(Reacquire(t))

----------------------------------------------------------------------------
\* Clients that also call the observers size() and empty()

ClientSize(t) ==
  /\ Size(t)
  /\ UNCHANGED pvars

ClientEmpty(t) ==
  /\ Empty(t)
  /\ UNCHANGED pvars

ObserverNext ==
  \E t \in Clients :
    \/ ClientEmplaceWaitIfFull(t) \/ ClientEmplaceOverwriteOldest(t)
    \/ ClientPopIfNotEmpty(t) \/ ClientPopWaitIfEmpty(t)
    \/ ClientAlertForExit(t)
    \/ ClientSize(t) \/ ClientEmpty(t)
    \/ EwfPred(t) \/ EwfWake(t) \/ EwfIf(t) \/ EwfNotify(t)
    \/ EooWhile(t) \/ EooEmplace(t) \/ EooNotify(t)
    \/ PineIf(t) \/ PineFront(t) \/ PinePop(t) \/ PineNotify(t)
    \/ PwiePred(t) \/ PwieWake(t) \/ PwieIf(t)
    \/ PwieFront(t) \/ PwiePop(t) \/ PwieNotify(t)
    \/ AfeSet(t) \/ AfeNotify(t)
    \/ SizeRet(t) \/ EmptyRet(t)
    \/ ClientReturn(t)
    \/ SpuriousWakeup(t)

ObserverSpec == Init /\ [][ObserverNext]_vars

----------------------------------------------------------------------------
\* ThreadPool (thread_pool.h)

\* std::vector<std::thread> thread_pool_, in emplace_back order
thread_pool_ == <<"w1", "w2">>

\* the tasks whose callable throws
Throws(i) == i % 2 = 0

\* what a future holds when its callable threw: the exception
Exception == (MaxItems * MaxItems) + 1

\* the callable bound in enqueue: the outcome of fn(args...) of task i
Body(i) == IF Throws(i) THEN Exception ELSE i * i

\* enqueue: make the packaged_task, take its future, emplace the wrapper
Enqueue(s) ==
  /\ joined = 0 /\ pc[Owner] = "idle"
  /\ next_item <= MaxItems
  /\ EmplaceWaitIfFull(s, next_item)
  /\ slot' = [slot EXCEPT ![next_item] = "pending"]
  /\ late' = IF \E i \in Items : Throws(i) /\ runs[i] > 0
               THEN late \cup {next_item} ELSE late
  /\ UNCHANGED <<held, runs, value, handle, joined, drained>>

\* enqueue: `return future`; the result of emplace_wait_if_full is not read.
\* A wrapper that was not emplaced is destroyed with its packaged_task.
EnqueueReturn(s) ==
  /\ pc[s] = "done"
  /\ handle' = handle \cup {arg[s]}
  /\ slot' = IF ret[s] THEN slot ELSE [slot EXCEPT ![arg[s]] = "broken"]
  /\ Goto(s, "idle")
  /\ op' = [op EXCEPT ![s] = "none"]
  /\ arg' = [arg EXCEPT ![s] = NoItem]
  /\ ret' = [ret EXCEPT ![s] = FALSE]
  /\ after_alert' = after_alert \ {s}
  /\ waited' = waited \ {s}
  /\ UNCHANGED <<qvars, out, next_item, pushed, overwrites, late_admit, popped, cs_entry, alert_woken>>
  /\ UNCHANGED <<held, runs, value, joined, late, drained>>

\* a pool in which only the first thread of thread_pool_ ever pops
WorkerPopSingle(w) ==
  /\ w = thread_pool_[1]
  /\ PopWaitIfEmpty(w, Ptr)
  /\ UNCHANGED pvars

\* thread_task: task_queue_.pop_wait_if_empty(&task)
WorkerPop(w) ==
  /\ PopWaitIfEmpty(w, Ptr)
  /\ UNCHANGED pvars

\* thread_task: if (!pop_wait_if_empty(&task)) break;
WorkerBranch(w) ==
  /\ pc[w] = "done"
  /\ IF ret[w]
       THEN /\ held' = [held EXCEPT ![w] = out[w]]
            /\ Goto(w, "task")
       ELSE /\ Goto(w, "exited")
            /\ UNCHANGED held
  /\ op' = [op EXCEPT ![w] = "none"]
  /\ arg' = [arg EXCEPT ![w] = NoItem]
  /\ ret' = [ret EXCEPT ![w] = FALSE]
  /\ out' = [out EXCEPT ![w] = NoItem]
  /\ after_alert' = after_alert \ {w}
  /\ alert_woken' = alert_woken \ {w}
  /\ waited' = waited \ {w}
  /\ UNCHANGED <<qvars, next_item, pushed, overwrites, late_admit, popped, cs_entry>>
  /\ UNCHANGED <<runs, slot, value, handle, joined, late, drained>>

\* a task() that lets the callable's exception escape into thread_task
WorkerTaskUncaught(w) ==
  /\ pc[w] = "task"
  /\ runs' = [runs EXCEPT ![held[w]] = @ + 1]
  /\ slot' = IF Throws(held[w]) THEN slot ELSE [slot EXCEPT ![held[w]] = "ready"]
  /\ value' = IF Throws(held[w]) THEN value ELSE [value EXCEPT ![held[w]] = Body(held[w])]
  /\ held' = [held EXCEPT ![w] = NoItem]
  /\ drained' = IF alert_for_exit_ THEN drained \cup {held[w]} ELSE drained
  /\ Goto(w, IF Throws(held[w]) THEN "exited" ELSE "idle")
  /\ UNCHANGED <<qvars, op, arg, ret, out, next_item, hvars, handle, joined, late>>

\* thread_task: task(); the inner packaged_task runs the callable and stores
\* its value, or the exception it threw, in the shared state; nothing is
\* thrown into thread_task, which goes round its loop again
WorkerTask(w) ==
  /\ pc[w] = "task"
  /\ runs' = [runs EXCEPT ![held[w]] = @ + 1]
  /\ slot' = [slot EXCEPT ![held[w]] = "ready"]
  /\ value' = [value EXCEPT ![held[w]] = Body(held[w])]
  /\ held' = [held EXCEPT ![w] = NoItem]
  /\ drained' = IF alert_for_exit_ THEN drained \cup {held[w]} ELSE drained
  /\ Goto(w, "idle")
  /\ UNCHANGED <<qvars, op, arg, ret, out, next_item, hvars, handle, joined, late>>

\* ~ThreadPool: task_queue_.alert_for_exit(); no enqueue is in progress
DtorAlert ==
  /\ joined = 0
  /\ \A s \in Submitters : pc[s] = "idle"
  /\ AlertForExit(Owner)
  /\ UNCHANGED pvars

\* a join that does not wait for the thread to finish
DtorJoinNoWait ==
  /\ pc[Owner] = "done"
  /\ joined < Len(thread_pool_)
  /\ joined' = joined + 1
  /\ UNCHANGED <<qvars, tvars, hvars, held, runs, slot, value, handle, late, drained>>

\* ~ThreadPool: for (auto& t : thread_pool_) t.join();
DtorJoin ==
  /\ pc[Owner] = "done"
  /\ joined < Len(thread_pool_)
  /\ pc[thread_pool_[joined + 1]] = "exited"
  /\ joined' = joined + 1
  /\ UNCHANGED <<qvars, tvars, hvars, held, runs, slot, value, handle, late, drained>>

PoolNext ==
  \/ \E s \in Submitters :
        \/ Enqueue(s)
        \/ EwfPred(s) \/ EwfWake(s) \/ EwfIf(s) \/ EwfNotify(s)
        \/ EnqueueReturn(s)
  \/ \E w \in Workers :
        \/ WorkerPop(w)
        \/ PwiePred(w) \/ PwieWake(w) \/ PwieIf(w)
        \/ PwieFront(w) \/ PwiePop(w) \/ PwieNotify(w)
        \/ WorkerBranch(w)
        \/ WorkerTask(w)
  \/ DtorAlert \/ AfeSet(Owner) \/ AfeNotify(Owner) \/ DtorJoin
  \/ \E t \in Workers \cup Submitters : SpuriousWakeup(t)

PoolSpec == Init /\ [][PoolNext]_vars

\* Scheduling of the pool's threads: workers and the destructor run on their
\* own; a submitter finishes a call it has started.
WorkerRun(w) ==
  \/ PwiePred(w) \/ PwieIf(w) \/ PwieFront(w) \/ PwiePop(w) \/ PwieNotify(w)
  \/ WorkerBranch(w) \/ WorkerTask(w)

WorkerLock(w) == WorkerPop(w) \/ PwieWake(w)

SubmitterRun(s) == EwfPred(s) \/ EwfIf(s) \/ EwfNotify(s) \/ EnqueueReturn(s)

OwnerRun == AfeSet(Owner) \/ AfeNotify(Owner) \/ DtorJoin

FairPoolSpec ==
  /\ PoolSpec
  /\ \A w \in Workers : WF_vars(WorkerRun(w)) /\ SF_vars(WorkerLock(w))
  /\ \A s \in Submitters : WF_vars(SubmitterRun(s)) /\ SF_vars(EwfWake(s))
  /\ WF_vars(OwnerRun)

----------------------------------------------------------------------------
\* ThreadPool destroyed while a call of enqueue is still in progress (its
\* submitter waiting for room in the task queue); no enqueue starts after
\* ~ThreadPool has.

\* ~ThreadPool: task_queue_.alert_for_exit()
DtorAlertRace ==
  /\ joined = 0
  /\ AlertForExit(Owner)
  /\ UNCHANGED pvars

RacePoolNext ==
  \/ \E s \in Submitters :
        \/ Enqueue(s)
        \/ EwfPred(s) \/ EwfWake(s) \/ EwfIf(s) \/ EwfNotify(s)
        \/ EnqueueReturn(s)
  \/ \E w \in Workers :
        \/ WorkerPop(w)
        \/ PwiePred(w) \/ PwieWake(w) \/ PwieIf(w)
        \/ PwieFront(w) \/ PwiePop(w) \/ PwieNotify(w)
        \/ WorkerBranch(w)
        \/ WorkerTask(w)
  \/ DtorAlertRace \/ AfeSet(Owner) \/ AfeNotify(Owner) \/ DtorJoin
  \/ \E t \in Workers \cup Submitters : SpuriousWakeup(t)

RacePoolSpec == Init /\ [][RacePoolNext]_vars

----------------------------------------------------------------------------
\* ThreadPool with a task whose body never returns

\* the tasks whose callable blocks forever
Blocks(i) == i = 1

\* thread_task: task() returns only if the callable does
WorkerTaskReturns(w) ==
  /\ ~Blocks(held[w])
  /\ WorkerTask(w)

StuckPoolNext ==
  \/ \E s \in Submitters :
        \/ Enqueue(s)
        \/ EwfPred(s) \/ EwfWake(s) \/ EwfIf(s) \/ EwfNotify(s)
        \/ EnqueueReturn(s)
  \/ \E w \in Workers :
        \/ WorkerPop(w)
        \/ PwiePred(w) \/ PwieWake(w) \/ PwieIf(w)
        \/ PwieFront(w) \/ PwiePop(w) \/ PwieNotify(w)
        \/ WorkerBranch(w)
        \/ WorkerTaskReturns(w)
  \/ DtorAlert \/ AfeSet(Owner) \/ AfeNotify(Owner) \/ DtorJoin
  \/ \E t \in Workers \cup Submitters : SpuriousWakeup(t)

StuckWorkerRun(w) ==
  \/ PwiePred(w) \/ PwieIf(w) \/ PwieFront(w) \/ PwiePop(w) \/ PwieNotify(w)
  \/ WorkerBranch(w) \/ WorkerTaskReturns(w)

StuckPoolSpec ==
  /\ Init /\ [][StuckPoolNext]_vars
  /\ \A w \in Workers : WF_vars(StuckWorkerRun(w)) /\ SF_vars(WorkerLock(w))
  /\ \A s \in Submitters : WF_vars(SubmitterRun(s)) /\ SF_vars(EwfWake(s))
  /\ WF_vars(OwnerRun)

----------------------------------------------------------------------------
\* Properties of MutexQueue

PopOps == {"pop_if_not_empty", "pop_wait_if_empty"}

\* the last n elements of q
LastN(q, n) == SubSeq(q, Len(q) - n + 1, Len(q))

\* C1: capacity invariant.  In every state reached by any interleaving of
\* the five operations the queue holds between 0 and kMaxSize elements.
C1_Capacity == Len(queue_) >= 0 /\ Len(queue_) <= kMaxSize

\* The queue is full and a producer is blocked in emplace_wait_if_full.
C1_Witness ==
  \E t \in Clients :
    /\ pc[t] = "ewf_blocked"
    /\ t \in not_full_notifier_
    /\ Len(queue_) = kMaxSize

\* C2: strict FIFO.  While no emplace_overwrite_oldest has been called, the
\* elements the pops removed, followed by the elements still queued, are the
\* emplaced elements in the order their emplace succeeded; and a pop hands
\* its caller the element it removed.
C2_Fifo ==
  /\ ~overwrites => popped \o queue_ = pushed
  /\ \A t \in Clients :
        (pc[t] \in {"pine_notify", "pwie_notify"} /\ arg[t] = Ptr)
          => out[t] = popped[Len(popped)]

\* MaxItems distinct items were pushed by emplace_wait_if_full, the last by
\* a producer that had to wait for room, and all were popped, in that order.
C2_Witness ==
  /\ ~overwrites
  /\ Len(pushed) = MaxItems
  /\ popped = pushed
  /\ \E t, u \in Clients :
        /\ pc[t] = "pwie_notify" /\ arg[t] = Ptr
        /\ pc[u] = "done" /\ op[u] = "emplace_wait_if_full" /\ u \in waited /\ ret[u]

\* C3: overwrite policy.  emplace_overwrite_oldest never waits; when it
\* found kMaxSize elements it has removed exactly the head and appended x,
\* otherwise it has removed nothing and appended x; so the queue then holds
\* the most recently emplaced elements in emplace order.
C3_Overwrite ==
  \A t \in Clients :
    /\ op[t] = "emplace_overwrite_oldest" =>
          t \notin (not_empty_notifier_ \cup not_full_notifier_ \cup waited)
    /\ pc[t] = "eoo_notify" =>
          /\ queue_ = (IF Len(cs_entry) = kMaxSize THEN Tail(cs_entry) ELSE cs_entry)
                         \o <<arg[t]>>
          /\ queue_ = LastN(pushed, Len(queue_))

\* An overwrite of a full queue has evicted the head and appended its item.
C3_Witness ==
  \E t \in Clients :
    /\ pc[t] = "eoo_notify"
    /\ Len(cs_entry) = kMaxSize
    /\ Len(queue_) = kMaxSize

\* a pop by t returns in this step
PopReturns(t) == op[t] \in PopOps /\ pc[t] # "done" /\ pc'[t] = "done"

\* C4 as claimed: once the queue is cancelled and empty every later pop
\* returns absent, so no step makes the queue non-empty again.  (The steps
\* of emplace_wait_if_full are excepted: what it does after cancellation is
\* C5.)
C4_AbsentForever ==
  [][(alert_for_exit_ /\ is_empty /\ \A t \in Clients : pc[t] # "ewf_if")
       => is_empty']_vars

\* C4, amended: after alert_for_exit has returned no pop_wait_if_empty is
\* blocked, and a pop that returns while the flag is set returns true with
\* the head element when it found the queue non-empty and false, leaving the
\* queue empty, when it found it empty.  (The queue may be refilled by a
\* later emplace, so absent is not forever.)
C4_Drain ==
  /\ [](\A t \in Clients :
          /\ (alert_for_exit_ /\ pc[t] = "pwie_blocked") =>
                (t \notin not_empty_notifier_ \/ \E u \in Clients : pc[u] = "afe_notify")
          /\ t \in after_alert => t \notin waited)
  /\ [][\A t \in Clients :
          (PopReturns(t) /\ alert_for_exit_) =>
            /\ ret'[t] = (cs_entry # <<>>)
            /\ cs_entry # <<>> =>
                  /\ queue_' = Tail(cs_entry)
                  /\ arg[t] = Ptr => out'[t] = Head(cs_entry)
            /\ cs_entry = <<>> => queue_' = <<>>]_vars

\* After cancellation one pop has returned an element and the next pop,
\* finding the queue empty, has returned false.
C4_Witness ==
  \E t, u \in Clients :
    /\ t # u
    /\ pc[t] = "done" /\ op[t] \in PopOps /\ t \in after_alert /\ ret[t]
    /\ pc[u] = "done" /\ op[u] \in PopOps /\ u \in after_alert /\ ~ret[u]

C6_ProducerReleased ==
  \A t \in Clients :
    (pc[t] = "ewf_blocked" /\ alert_for_exit_ /\ is_full) ~> (pc[t] # "ewf_blocked")

\* C7 as claimed: a consumer that alert_for_exit released from its wait on
\* the empty queue returns false.  (Runs in which emplace_wait_if_full
\* enqueued after cancellation are left out: that is C5.)
C7_ReleasedReturnsFalse ==
  \A t \in Clients :
    (pc[t] = "done" /\ op[t] = "pop_wait_if_empty" /\ t \in alert_woken
       /\ ~late_admit) => ~ret[t]

\* C7, amended: a consumer blocked in pop_wait_if_empty when the queue is
\* cancelled, or calling it afterwards, eventually returns; it returns false
\* exactly when it finds the queue empty on re-checking under the lock (an
\* element emplaced in between is returned instead).
C7_ConsumerReleased ==
  /\ \A t \in Clients :
        (pc[t] = "pwie_blocked" /\ alert_for_exit_) ~> (pc[t] = "done")
  /\ [][\A t \in Clients :
          (PopReturns(t) /\ op[t] = "pop_wait_if_empty"
             /\ t \in (alert_woken \cup after_alert))
            => ret'[t] = (cs_entry # <<>>)]_vars

\* A consumer released by alert_for_exit has returned false.
C7_Witness ==
  \E t \in Clients :
    pc[t] = "done" /\ op[t] = "pop_wait_if_empty" /\ t \in alert_woken /\ ~ret[t]

\* C8: blocking wakeup.  On a queue that is not cancelled, a consumer blocked
\* in pop_wait_if_empty while the queue holds an element eventually returns
\* an element unless the queue is emptied first, and a producer blocked in
\* emplace_wait_if_full while the queue has room eventually enqueues unless
\* the queue is filled first.
C8_BlockingWakeup ==
  \A t \in Clients :
    /\ (pc[t] = "pwie_blocked" /\ ~is_empty /\ ~alert_for_exit_)
          ~> ((pc[t] = "done" /\ ret[t]) \/ is_empty)
    /\ (pc[t] = "ewf_blocked" /\ ~is_full /\ ~alert_for_exit_)
          ~> ((pc[t] = "done" /\ ret[t]) \/ is_full)

\* A consumer that had blocked has returned an element of a queue that was
\* never cancelled.
C8_Witness ==
  \E t \in Clients :
    /\ pc[t] = "done" /\ op[t] = "pop_wait_if_empty"
    /\ t \in waited /\ ret[t] /\ ~alert_for_exit_

----------------------------------------------------------------------------
\* Properties of ThreadPool

\* the tasks a worker has taken out of the queue and not yet run
InHand(w) ==
  (IF held[w] # NoItem THEN {held[w]} ELSE {})
    \cup (IF pc[w] \in {"pwie_pop", "pwie_notify", "done"} /\ out[w] # NoItem
            THEN {out[w]} ELSE {})

\* C9: exactly-once execution.  No task body runs twice, no two workers hold
\* the same task, a task that is queued or in a worker's hands has not run,
\* and a result slot is written exactly when its task has run once, with
\* that task's own result.
C9_ExactlyOnce ==
  /\ \A i \in Items :
        /\ runs[i] <= 1
        /\ (slot[i] = "ready") = (runs[i] = 1)
        /\ slot[i] = "ready" => value[i] = Body(i)
        /\ runs[i] = 0 => value[i] = NoItem
  /\ \A w, x \in Workers : w # x => InHand(w) \cap InHand(x) = {}
  /\ \A w \in Workers : \A i \in InHand(w) : runs[i] = 0
  /\ \A k \in 1..Len(queue_) :
        /\ runs[queue_[k]] = 0
        /\ \A j \in 1..Len(queue_) : j # k => queue_[j] # queue_[k]

\* Both workers hold a task at once, tasks of two different submitters, and
\* another task has already been run.
C9_Witness ==
  /\ \A w \in Workers : pc[w] = "task"
  /\ \E i \in Items : runs[i] = 1 /\ i \in handle
  /\ \E s \in Submitters : pc[s] = "done" /\ arg[s] \in {held[w] : w \in Workers}

\* C10: every handle is eventually fulfilled.  A task whose future enqueue
\* has returned, with the task enqueued, is eventually run by a worker and
\* its result stored.
C10_Fulfilled ==
  \A i \in Items :
    (i \in handle /\ slot[i] = "pending") ~> (slot[i] = "ready" /\ runs[i] = 1)

\* Every task has been submitted, its handle returned, and it has been run,
\* the last one by a worker that had blocked on the empty queue.
C10_Witness ==
  /\ handle = Items
  /\ \A i \in Items : slot[i] = "ready"
  /\ \E w \in Workers : w \in waited

\* C11: teardown terminates and drains.  Once ~ThreadPool has started (no
\* submission in progress) the joins eventually complete; when they have,
\* every worker has left its loop, the task queue is empty, and every task
\* that was enqueued has been executed once, none discarded.
C11_Teardown ==
  /\ [](joined = Len(thread_pool_) =>
          /\ \A w \in Workers : pc[w] = "exited"
          /\ queue_ = <<>>
          /\ \A k \in 1..Len(pushed) : runs[pushed[k]] = 1
          /\ \A i \in Items : slot[i] # "none" => slot[i] = "ready")
  /\ (pc[Owner] # "idle") ~> (joined = Len(thread_pool_))

\* ~ThreadPool has joined every worker, and MaxItems tasks were enqueued, of
\* which one was still pending when teardown began and was run after it.
C11_Witness ==
  /\ joined = Len(thread_pool_)
  /\ Len(pushed) = MaxItems
  /\ drained # {}

\* C12: failure propagation.  The exception a task body throws is stored in
\* that task's own shared state and in no other; the worker that ran the
\* task goes back to the top of its loop, so no worker has left its loop
\* while the queue is not cancelled; and a task enqueued after the failure
\* is still run and its own outcome stored.
C12_FailurePropagation ==
  /\ [](/\ \A i \in Items :
             /\ (Throws(i) /\ runs[i] = 1) => (slot[i] = "ready" /\ value[i] = Exception)
             /\ ~Throws(i) => value[i] # Exception
         /\ ~alert_for_exit_ => \A w \in Workers : pc[w] # "exited")
  /\ [][\A w \in Workers :
          (pc[w] = "task" /\ Throws(held[w]) /\ pc'[w] # "task")
            => (pc'[w] = "idle" /\ held'[w] = NoItem)]_vars
  /\ \A i \in Items :
        (i \in late /\ slot[i] = "pending") ~> (slot[i] = "ready" /\ value[i] = Body(i))

\* A task body has thrown, and a task enqueued after that has completed
\* with its own value while every worker is still in its loop.
C12_Witness ==
  /\ \E i \in Items : Throws(i) /\ slot[i] = "ready" /\ value[i] = Exception
  /\ \E i \in late : ~Throws(i) /\ slot[i] = "ready" /\ value[i] = i * i
  /\ \A w \in Workers : pc[w] \notin {"exited", "task"}

\* C13: no starvation beyond one slot.  While a task that never returns
\* occupies one worker, every other task whose future enqueue has returned
\* is eventually run by the remaining worker and its result stored; the
\* stuck task's own slot stays pending.
C13_NoStarvation ==
  /\ [](\A i \in Items : Blocks(i) => (runs[i] = 0 /\ slot[i] \in {"none", "pending"}))
  /\ \A i \in Items :
        (/\ ~Blocks(i) /\ i \in handle /\ slot[i] = "pending"
         /\ \E w \in Workers : pc[w] = "task" /\ Blocks(held[w]))
          ~> (slot[i] = "ready" /\ runs[i] = 1 /\ value[i] = Body(i))

\* One worker is stuck in a task that never returns and every other task
\* has been submitted and run.
C13_Witness ==
  /\ \E w \in Workers : pc[w] = "task" /\ Blocks(held[w])
  /\ handle = Items
  /\ \A i \in Items : ~Blocks(i) => (slot[i] = "ready" /\ runs[i] = 1)

\* the worker states of the specification, read off thread_task's position
WorkerState(w) ==
  IF pc[w] = "exited" THEN "TERMINATED"
  ELSE IF pc[w] = "task" THEN "EXECUTING"
  ELSE "RUNNING"

\* C14: worker state machine.  Every worker starts RUNNING; it becomes
\* EXECUTING only by a pop_wait_if_empty that returned true, holding the
\* task that pop handed out, and goes from EXECUTING only back to RUNNING;
\* it becomes TERMINATED only from RUNNING after pop_wait_if_empty returned
\* false, and that pop returns false only in a state where the queue is
\* cancelled and empty; a TERMINATED worker takes no further step.
C14_WorkerStateMachine ==
  /\ \A w \in Workers : WorkerState(w) = "RUNNING"
  /\ [][\A w \in Workers :
          /\ (WorkerState(w) # "EXECUTING" /\ WorkerState(w)' = "EXECUTING") =>
                /\ WorkerState(w) = "RUNNING"
                /\ pc[w] = "done" /\ op[w] = "pop_wait_if_empty" /\ ret[w]
                /\ out[w] \in Items /\ held'[w] = out[w]
          /\ (WorkerState(w) = "EXECUTING" /\ WorkerState(w)' # "EXECUTING") =>
                (WorkerState(w)' = "RUNNING" /\ pc'[w] = "idle")
          /\ (WorkerState(w) # "TERMINATED" /\ WorkerState(w)' = "TERMINATED") =>
                /\ WorkerState(w) = "RUNNING"
                /\ pc[w] = "done" /\ op[w] = "pop_wait_if_empty" /\ ~ret[w]
          /\ (op[w] = "pop_wait_if_empty" /\ pc[w] # "done" /\ pc'[w] = "done" /\ ~ret'[w]) =>
                (alert_for_exit_ /\ queue_ = <<>> /\ queue_' = <<>>)
          /\ WorkerState(w) = "TERMINATED" =>
                /\ pc'[w] = pc[w] /\ op'[w] = op[w] /\ held'[w] = held[w]
                /\ mutex_' # w]_vars

\* One worker has terminated on the cancelled, empty queue while the other,
\* which popped the last task, is still executing it.
C14_Witness ==
  /\ \E w, x \in Workers : WorkerState(w) = "TERMINATED" /\ WorkerState(x) = "EXECUTING"
  /\ alert_for_exit_ /\ queue_ = <<>>

\* C20 as claimed: size() returns the number of elements, empty() returns a
\* true (non-zero) value exactly when the queue holds no element, and
\* neither changes the queue or the cancellation flag.
C20_Observers ==
  [][\A t \in Clients :
       /\ (pc[t] = "size_ret" /\ pc'[t] = "done") =>
             /\ out'[t] = Len(queue_)
             /\ queue_' = queue_ /\ alert_for_exit_' = alert_for_exit_
       /\ (pc[t] = "empty_ret" /\ pc'[t] = "done") =>
             /\ (out'[t] # 0) = (queue_ = <<>>)
             /\ queue_' = queue_ /\ alert_for_exit_' = alert_for_exit_]_vars

\* the thread is between locking mutex_ and releasing it
InCritical(t) ==
  pc[t] \notin {"idle", "done", "ewf_blocked", "pwie_blocked", "task", "exited"}

\* C15: critical sections are exclusive and the overwrite step is atomic.
\* At most one thread is inside a locked region, and it is the owner of
\* mutex_; every step that changes the element sequence or the
\* cancellation flag is taken by the owner of mutex_ inside its locked
\* region; and from the lock of an emplace_overwrite_oldest call to its
\* append no other thread enters or moves within a queue operation, the
\* queue being changed by that call alone.
C15_Exclusive ==
  /\ [](\A t, u \in Clients :
          /\ (InCritical(t) /\ InCritical(u)) => t = u
          /\ InCritical(t) = (mutex_ = t))
  /\ [][(queue_' # queue_ \/ alert_for_exit_' # alert_for_exit_) =>
          \E t \in Clients :
            /\ mutex_ = t /\ InCritical(t)
            /\ \A u \in Clients \ {t} : pc'[u] = pc[u]]_vars
  /\ [][\A t \in Clients :
          pc[t] \in {"eoo_while", "eoo_emplace"} =>
            /\ \A u \in Clients \ {t} :
                  /\ pc'[u] # pc[u] => (pc[u] = "done" /\ pc'[u] = "idle")
                  /\ pc[u] # "done" => (out'[u] = out[u] /\ ret'[u] = ret[u])
            /\ pc'[t] = "eoo_notify" =>
                  queue_' = (IF Len(cs_entry) = kMaxSize THEN Tail(cs_entry) ELSE cs_entry)
                              \o <<arg[t]>>]_vars

\* An overwrite has evicted the head of the full queue and not yet appended
\* its item, while a consumer that was notified is waiting to re-acquire
\* mutex_.
C15_Witness ==
  \E t, u \in Clients :
    /\ pc[t] = "eoo_emplace" /\ Len(cs_entry) = kMaxSize /\ Len(queue_) = kMaxSize - 1
    /\ pc[u] = "pwie_blocked" /\ u \notin not_empty_notifier_

\* C16: the cancellation flag is sticky and alert_for_exit is idempotent.
\* The flag starts false; no step changes it from true to false; the only
\* step that changes it is the assignment in alert_for_exit; and an
\* alert_for_exit called with the flag already set leaves the flag set and
\* the queue as it found it (as does the first one, for the queue).
C16_Sticky ==
  /\ ~alert_for_exit_
  /\ [][alert_for_exit_ => alert_for_exit_']_vars
  /\ [][alert_for_exit_' # alert_for_exit_ =>
          \E t \in Clients : pc[t] = "afe_set" /\ pc'[t] = "afe_notify"]_vars
  /\ [](\A t \in Clients :
          (op[t] = "alert_for_exit" /\ InCritical(t)) =>
            /\ queue_ = cs_entry
            /\ t \in after_alert => alert_for_exit_)
  /\ [][\A t \in Clients :
          (op[t] = "alert_for_exit" /\ InCritical(t)) =>
            /\ queue_' = queue_
            /\ t \in after_alert => alert_for_exit_' = alert_for_exit_]_vars

\* A second alert_for_exit has returned on a cancelled queue that still
\* holds an element.
C16_Witness ==
  \E t \in Clients :
    /\ pc[t] = "done" /\ op[t] = "alert_for_exit" /\ t \in after_alert
    /\ alert_for_exit_ /\ queue_ # <<>>

\* C17: threads suspend only when they must.  A thread enters the wait of
\* emplace_wait_if_full only in a state where the queue holds kMaxSize
\* elements and is not cancelled, and the wait of pop_wait_if_empty only
\* where the queue is empty and not cancelled; an emplace_wait_if_full that
\* finds the queue non-full under its lock returns true having appended its
\* item at the tail, and a pop_wait_if_empty that finds it non-empty returns
\* true having removed the head.
C17_SuspendOnlyWhenMust ==
  [][\A t \in Clients :
       /\ (pc[t] # "ewf_blocked" /\ pc'[t] = "ewf_blocked") =>
             (Len(queue_) = kMaxSize /\ ~alert_for_exit_)
       /\ (pc[t] # "pwie_blocked" /\ pc'[t] = "pwie_blocked") =>
             (queue_ = <<>> /\ ~alert_for_exit_)
       /\ (pc[t] = "ewf_pred" /\ Len(queue_) < kMaxSize) => pc'[t] \in {"ewf_pred", "ewf_if"}
       /\ (pc[t] = "pwie_pred" /\ queue_ # <<>>) => pc'[t] \in {"pwie_pred", "pwie_if"}
       /\ (op[t] = "emplace_wait_if_full" /\ InCritical(t) /\ pc'[t] = "done"
             /\ Len(cs_entry) < kMaxSize) =>
             (ret'[t] /\ queue_' = Append(cs_entry, arg[t]))
       /\ (op[t] = "pop_wait_if_empty" /\ InCritical(t) /\ pc'[t] = "done"
             /\ cs_entry # <<>>) =>
             /\ ret'[t] /\ queue_' = Tail(cs_entry)
             /\ arg[t] = Ptr => out'[t] = Head(cs_entry)]_vars

\* A consumer is suspended on the empty queue, and a producer that had been
\* suspended on the full queue has since appended its item and returned true.
C17_Witness ==
  \E t, u \in Clients :
    /\ pc[t] = "pwie_blocked" /\ t \in not_empty_notifier_
    /\ queue_ = <<>> /\ ~alert_for_exit_
    /\ pc[u] = "done" /\ op[u] = "emplace_wait_if_full" /\ u \in waited /\ ret[u]

\* C18: pop_if_not_empty never blocks.  It is never in a wait; it leaves
\* the cancellation flag alone; when it finds the queue empty it returns
\* false with the queue still empty; when it finds an element it returns
\* true having removed exactly the head, handed it to its caller, left the
\* rest in order and released every producer waiting in
\* emplace_wait_if_full; all of this whatever the cancellation flag is.
C18_PopIfNotEmpty ==
  /\ [](\A t \in Clients :
          op[t] = "pop_if_not_empty" =>
            /\ t \notin (waited \cup not_empty_notifier_ \cup not_full_notifier_)
            /\ pc[t] \notin {"ewf_blocked", "pwie_blocked"})
  /\ [][\A t \in Clients :
          (op[t] = "pop_if_not_empty" /\ InCritical(t)) =>
            /\ alert_for_exit_' = alert_for_exit_
            /\ pc'[t] = "done" =>
                  /\ ret'[t] = (cs_entry # <<>>)
                  /\ cs_entry = <<>> => queue_' = <<>>
                  /\ cs_entry # <<>> =>
                        /\ queue_' = Tail(cs_entry)
                        /\ arg[t] = Ptr => out'[t] = Head(cs_entry)
                        /\ not_full_notifier_' = {}]_vars

\* On a cancelled queue pop_if_not_empty has returned true, and a producer
\* that was waiting in emplace_wait_if_full has been released by it.
C18_Witness ==
  \E t, u \in Clients :
    /\ pc[t] = "done" /\ op[t] = "pop_if_not_empty" /\ ret[t] /\ alert_for_exit_
    /\ Len(queue_) = kMaxSize - 1
    /\ pc[u] = "ewf_blocked" /\ u \notin not_full_notifier_

\* C19 as claimed: no stranded task.  In every state in which all workers
\* have left their loop the task queue is empty, also when a submitter that
\* was waiting for room is admitted while the workers drain the queue.
C19_NoStrandedTask ==
  (\A w \in Workers : pc[w] = "exited") => queue_ = <<>>

====
